---- MODULE Spec2Model ----
(***************************************************************************)
(* Exbana: a grammar-combinator engine.  The model covers the runes       *)
(* Reader, the seven pattern variants and their Match methods, and the    *)
(* Scan driver.  Match is a recursive descent over an immutable pattern   *)
(* tree that threads one mutable reader (cursor) and one mismatch log.    *)
(***************************************************************************)
EXTENDS Integers, Sequences, FiniteSets, TLC

\* ------------------------------------------------------------------ bounds
MaxLen == 3
MaxFail == 4

\* ------------------------------------------------------------------ tokens
\* the zero rune that Read1 hands out together with io.EOF
NUL == "NUL"
\* the alphabet of the streams; LF is the rune '\n'
LF == "LF"
Runes == {"a", "b", LF}

\* error values: nil, io.EOF, the runes reader's bounds error, and the error an
\* arbitrary Reader implementation may return from a fallible operation
NoErr == "nil"
EOF == "EOF"
OutOfBounds == "out of bounds"
StreamFailure == "stream failure"

IsStreamError(err) == err # NoErr /\ err # EOF

VARIABLES
  data,      \* Reader.data: the runes of the stream
  rd,        \* the reader's mutable state and the attached StackLog
  failAt,    \* which fallible Reader operation fails (0: none, the plain runes reader)
  altImpl,   \* which of the two Alternation.Match sources is built
  root,      \* the pattern under test
  pc,        \* position of the caller
  callPos,   \* reader position recorded when Match (or the Scan iteration) was entered
  res,       \* what the last root Match returned
  results,   \* Scan's result list
  scanErr,   \* the error Scan returned
  input,     \* the runes handed to runes.New
  out,       \* what has been written to the io.Writer, one element per Write
  built      \* the pattern object a constructor returned, as its BasePattern fields

\* no constructor has been called
NoObject == [kind |-> "none"]

vars == <<data, rd, failAt, altImpl, root, pc, callPos, res, results, scanErr, input, out, built>>

\* ------------------------------------------------------------------ reader
ZeroPos == [Line |-> 0, Col |-> 0, Index |-> 0]

\* count a fallible Reader operation (saturating one past the failing one), and
\* note an operation performed after the reader has returned a stream error
Tick(st) ==
  [st EXCEPT !.ops = IF @ <= failAt THEN @ + 1 ELSE @,
             !.after = IF st.failed # NoErr THEN 1 ELSE @]

\* the operation about to be performed on st is the one that fails
Faulty(st) == failAt # 0 /\ st.ops + 1 = failAt

\* a failure is still to come
FaultPending(st) == failAt # 0 /\ st.ops < failAt

\* what a Reader operation returns; the first stream error returned is noted
Ret(st, val, err) ==
  [st |-> IF IsStreamError(err) /\ st.failed = NoErr THEN [st EXCEPT !.failed = err] ELSE st,
   val |-> val, err |-> err]

Position(st) ==
  IF Faulty(st) THEN Ret(Tick(st), ZeroPos, StreamFailure)
  ELSE Ret(Tick(st), st.pos, NoErr)

SetPosition(st, p) ==
  IF Faulty(st) THEN Ret(Tick(st), 0, StreamFailure)
  ELSE IF p.Index < 0 \/ p.Index > Len(data) THEN Ret(Tick(st), 0, OutOfBounds)
  ELSE Ret([Tick(st) EXCEPT !.pos = p], 0, NoErr)

\* the cursor after consuming rune c
Advance(p, c) ==
  IF c = LF THEN [Line |-> p.Line + 1, Col |-> 0, Index |-> p.Index + 1]
  ELSE [Line |-> p.Line, Col |-> p.Col + 1, Index |-> p.Index + 1]

\* Read1, returning the rune under the cursor without consuming it (Peek1)
Read1Peeks(st) ==
  IF Faulty(st) THEN Ret(Tick(st), NUL, StreamFailure)
  ELSE IF st.pos.Index < Len(data)
       THEN Ret(Tick(st), data[st.pos.Index + 1], NoErr)
       ELSE Ret(Tick(st), NUL, EOF)

Read1(st) ==
  IF Faulty(st) THEN Ret(Tick(st), NUL, StreamFailure)
  ELSE IF st.pos.Index < Len(data)
       THEN LET c == data[st.pos.Index + 1]
            IN Ret([Tick(st) EXCEPT !.pos = Advance(st.pos, c)], c, NoErr)
       ELSE Ret(Tick(st), NUL, EOF)

RECURSIVE read(_, _, _)
read(st, n, i) ==
  IF i < n /\ st.pos.Index < Len(data)
  THEN read([st EXCEPT !.pos = Advance(st.pos, data[st.pos.Index + 1])], n, i + 1)
  ELSE Ret(st, i, IF i # n THEN EOF ELSE NoErr)

Skip(st, n) ==
  IF Faulty(st) THEN Ret(Tick(st), 0, StreamFailure)
  ELSE read(Tick(st), n, 0)

Finished(st) == st.pos.Index >= Len(data)

Range(st, p1, p2) ==
  IF Faulty(st) THEN Ret(Tick(st), <<>>, StreamFailure)
  ELSE IF p1.Index < 0 \/ p1.Index >= Len(data) \/ p2.Index < 0 \/ p2.Index > Len(data)
       THEN Ret(Tick(st), <<>>, OutOfBounds)
       ELSE Ret(Tick(st), SubSeq(data, p1.Index + 1, p2.Index), NoErr)

Length(p1, p2) == p2.Index - p1.Index

\* the position the runes reader has after reading the first i runes of data
RECURSIVE PosAt(_)
PosAt(i) == IF i = 0 THEN ZeroPos ELSE Advance(PosAt(i - 1), data[i])

\* ------------------------------------------------------------------ patterns
NoID == ""

\* genFunc is the set of tokens the generator function may return ({}: nil);
\* maxGen is zero until SetMaxGen is called
Pat(kind, id, logging, pred, vector, patterns, min, max, ortho) ==
  [kind |-> kind, id |-> id, logging |-> logging, pred |-> pred, vector |-> vector,
   patterns |-> patterns, min |-> min, max |-> max, isOrthogonal |-> ortho,
   genFunc |-> {}, maxGen |-> 0, printOutput |-> ""]

Entity(pred) == Pat("entity", NoID, FALSE, pred, <<>>, <<>>, 0, 0, FALSE)
Vector(vec) == Pat("vector", NoID, FALSE, {}, vec, <<>>, 0, 0, FALSE)
Concatenation(ps) == Pat("concatenation", NoID, FALSE, {}, <<>>, ps, 0, 0, FALSE)
Alternation(ps) == Pat("alternation", NoID, FALSE, {}, <<>>, ps, 0, 0, FALSE)
Repetition(p, min, max) == Pat("repetition", NoID, FALSE, {}, <<>>, <<p>>, min, max, FALSE)
Exception(must, exception) == Pat("exception", NoID, FALSE, {}, <<>>, <<must, exception>>, 0, 0, FALSE)
End == Pat("end", NoID, FALSE, {}, <<>>, <<>>, 0, 0, FALSE)

SetID(p, id) == [p EXCEPT !.id = id]
SetLogger(p) == [p EXCEPT !.logging = TRUE]
SetOrthogonal(p, ortho) == [p EXCEPT !.isOrthogonal = ortho]
SetGenerateFunc(e, f) == [e EXCEPT !.genFunc = f]
SetMaxGen(rep, maxGen) == [rep EXCEPT !.maxGen = maxGen]
SetPrintOutput(p, output) == [p EXCEPT !.printOutput = output]

\* ------------------------------------------------------------------ matches
\* a nil *Match
NilMatch ==
  [nil |-> TRUE, Pattern |-> End, Begin |-> ZeroPos, End |-> ZeroPos,
   Value |-> <<>>, Components |-> <<>>]

\* Value is <<>> for a nil slice and <<tokens>> for a captured range
NewMatch(pattern, begin, end, value, components) ==
  [nil |-> FALSE, Pattern |-> pattern, Begin |-> begin, End |-> end,
   Value |-> value, Components |-> components]

\* NewMismatch, leaving the list of matched children empty
NewMismatchDropsMatched(pattern, begin, end, unmatched, matched) ==
  [Pattern |-> pattern, Begin |-> begin, End |-> end,
   Unmatched |-> unmatched, Matched |-> <<>>]

NewMismatch(pattern, begin, end, unmatched, matched) ==
  [Pattern |-> pattern, Begin |-> begin, End |-> end,
   Unmatched |-> unmatched, Matched |-> matched]

\* LogMismatch, appending the record whatever logger the pattern has
LogMismatchAlways(p, st, m) == [st EXCEPT !.log = Append(@, m)]

\* Logger().LogMismatch: VoidLog drops the record, StackLog appends it
LogMismatch(p, st, m) ==
  IF p.logging THEN [st EXCEPT !.log = Append(@, m)] ELSE st

\* the three shapes a Match call returns, and a call that never returns
Matched(m, st) == [matched |-> TRUE, match |-> m, err |-> NoErr, hang |-> FALSE, st |-> st]
Mismatched(st) == [matched |-> FALSE, match |-> NilMatch, err |-> NoErr, hang |-> FALSE, st |-> st]
Failed(err, st) == [matched |-> FALSE, match |-> NilMatch, err |-> err, hang |-> FALSE, st |-> st]
Hangs(st) == [matched |-> FALSE, match |-> NilMatch, err |-> NoErr, hang |-> TRUE, st |-> st]

\* ------------------------------------------------------------------ Match
RECURSIVE Match(_, _)
RECURSIVE VectorLoop(_, _, _, _)
RECURSIVE ConcatenationLoop(_, _, _, _, _)
RECURSIVE AlternationLoop(_, _, _, _, _)
RECURSIVE AlternationLoopV0(_, _, _, _, _)
RECURSIVE RepetitionLoop(_, _, _, _)

\* EntityMatch, returning the Match without the captured tokens
EntityMatchNoValue(e, st0) ==
  LET obj == Read1(Position(st0).st) IN
  IF IsStreamError(obj.err) THEN Failed(obj.err, obj.st) ELSE
  IF obj.val \in e.pred
  THEN Matched(NewMatch(e, st0.pos, obj.st.pos, <<>>, <<>>), Position(obj.st).st)
  ELSE Mismatched(Position(obj.st).st)

\* Entity.Match
EntityMatch(e, st0) ==
  LET pos == Position(st0) IN
  IF IsStreamError(pos.err) THEN Failed(pos.err, pos.st) ELSE
  LET obj == Read1(pos.st) IN
  IF IsStreamError(obj.err) THEN Failed(obj.err, obj.st) ELSE
  LET endPos == Position(obj.st) IN
  IF obj.val \in e.pred
  THEN IF IsStreamError(endPos.err) THEN Failed(endPos.err, endPos.st) ELSE
       LET val == Range(endPos.st, pos.val, endPos.val) IN
       IF val.err # NoErr THEN Failed(val.err, val.st)
       ELSE Matched(NewMatch(e, pos.val, endPos.val, <<val.val>>, <<>>), val.st)
  ELSE IF IsStreamError(endPos.err) THEN Failed(endPos.err, endPos.st)
       ELSE Mismatched(LogMismatch(e, endPos.st,
                         NewMismatch(e, pos.val, endPos.val, NilMatch, <<>>)))

\* Vector.Match: the loop over the literal, then the capture
VectorLoop(v, i, beginPos, st) ==
  IF i > Len(v.vector)
  THEN LET endPos == Position(st) IN
       IF IsStreamError(endPos.err) THEN Failed(endPos.err, endPos.st) ELSE
       LET val == Range(endPos.st, beginPos, endPos.val) IN
       IF val.err # NoErr THEN Failed(val.err, val.st)
       ELSE Matched(NewMatch(v, beginPos, endPos.val, <<val.val>>, <<>>), val.st)
  ELSE LET e2 == Read1(st) IN
       IF IsStreamError(e2.err) THEN Failed(e2.err, e2.st) ELSE
       IF v.vector[i] # e2.val
       THEN LET endPos == Position(e2.st) IN
            IF IsStreamError(endPos.err) THEN Failed(endPos.err, endPos.st)
            ELSE Mismatched(LogMismatch(v, endPos.st,
                              NewMismatch(v, beginPos, endPos.val, NilMatch, <<>>)))
       ELSE VectorLoop(v, i + 1, beginPos, e2.st)

VectorMatch(v, st0) ==
  LET beginPos == Position(st0) IN
  IF IsStreamError(beginPos.err) THEN Failed(beginPos.err, beginPos.st)
  ELSE VectorLoop(v, 1, beginPos.val, beginPos.st)

\* EndMatch, matching already when one token is left
EndMatchEager(e, st0) ==
  IF st0.pos.Index + 1 >= Len(data)
  THEN Matched(NewMatch(e, st0.pos, st0.pos, <<>>, <<>>), Position(st0).st)
  ELSE Mismatched(Position(st0).st)

\* End.Match
EndMatch(e, st0) ==
  LET pos == Position(st0) IN
  IF IsStreamError(pos.err) THEN Failed(pos.err, pos.st) ELSE
  IF Finished(pos.st)
  THEN Matched(NewMatch(e, pos.val, pos.val, <<>>, <<>>), pos.st)
  ELSE Mismatched(LogMismatch(e, pos.st, NewMismatch(e, pos.val, pos.val, NilMatch, <<>>)))

\* ConcatenationLoop, taking a child's stream error for a mismatch
ConcatenationLoopSwallows(c, i, beginPos, st, matches) ==
  IF i > Len(c.patterns)
  THEN Matched(NewMatch(c, beginPos, Position(st).val, <<>>, matches), Position(st).st)
  ELSE LET r == Match(c.patterns[i], Position(st).st) IN
       IF r.hang THEN r ELSE
       IF r.matched
       THEN ConcatenationLoop(c, i + 1, beginPos, r.st, Append(matches, r.match))
       ELSE Mismatched(Position(r.st).st)

\* Concatenation.Match: the loop over the children from child i on
ConcatenationLoop(c, i, beginPos, st, matches) ==
  IF i > Len(c.patterns)
  THEN LET endPos == Position(st) IN
       IF IsStreamError(endPos.err) THEN Failed(endPos.err, endPos.st)
       ELSE Matched(NewMatch(c, beginPos, endPos.val, <<>>, matches), endPos.st)
  ELSE LET subBeginPos == Position(st) IN
       IF IsStreamError(subBeginPos.err) THEN Failed(subBeginPos.err, subBeginPos.st) ELSE
       LET r == Match(c.patterns[i], subBeginPos.st) IN
       IF r.hang THEN r ELSE
       IF r.err # NoErr THEN Failed(r.err, r.st) ELSE
       IF r.matched
       THEN ConcatenationLoop(c, i + 1, beginPos, r.st, Append(matches, r.match))
       ELSE LET subEndPos == Position(r.st) IN
            IF IsStreamError(subEndPos.err) THEN Failed(subEndPos.err, subEndPos.st)
            ELSE Mismatched(LogMismatch(c, subEndPos.st,
                   NewMismatch(c, beginPos, subEndPos.val,
                     NewMatch(c.patterns[i], subBeginPos.val, subEndPos.val, <<>>, <<>>),
                     matches)))

ConcatenationMatch(c, st0) ==
  LET beginPos == Position(st0) IN
  IF IsStreamError(beginPos.err) THEN Failed(beginPos.err, beginPos.st)
  ELSE ConcatenationLoop(c, 1, beginPos.val, beginPos.st, <<>>)

\* the selection among the recorded candidates: `length` and `longestMatch` after
\* the loop `for _, match := range matches`, started from length = init
RECURSIVE Longest(_, _, _, _)
Longest(matches, i, length, longestMatch) ==
  IF i > Len(matches) THEN longestMatch
  ELSE LET matchLength == Length(matches[i].Begin, matches[i].End) IN
       IF matchLength > length
       THEN Longest(matches, i + 1, matchLength, matches[i])
       ELSE Longest(matches, i + 1, length, longestMatch)

\* AlternationSelect, rewinding to the start position when no child matched
AlternationSelectRewinds(a, beginPos, st, matches) ==
  IF Len(matches) > 0
  THEN LET longestMatch == Longest(matches, 1, -1, NilMatch)
       IN Matched(longestMatch, SetPosition(st, longestMatch.End).st)
  ELSE Mismatched(SetPosition(st, beginPos).st)

\* Alternation.Match (patterns/end/end.go): after the loop over the children
AlternationSelect(a, beginPos, st, matches) ==
  IF Len(matches) > 0
  THEN LET longestMatch == Longest(matches, 1, -1, NilMatch) IN
       IF ~longestMatch.nil
       THEN LET sp == SetPosition(st, longestMatch.End) IN
            IF IsStreamError(sp.err) THEN Failed(sp.err, sp.st)
            ELSE Matched(longestMatch, sp.st)
       ELSE Matched(longestMatch, st)
  ELSE LET endPos == Position(st) IN
       IF IsStreamError(endPos.err) THEN Failed(endPos.err, endPos.st)
       ELSE Mismatched(LogMismatch(a, endPos.st,
                         NewMismatch(a, beginPos, endPos.val, NilMatch, <<>>)))

\* Alternation.Match (patterns/end/end.go): the loop over the children from child i on
AlternationLoop(a, i, beginPos, st, matches) ==
  IF i > Len(a.patterns) THEN AlternationSelect(a, beginPos, st, matches)
  ELSE LET sp == SetPosition(st, beginPos) IN
       IF IsStreamError(sp.err) THEN Failed(sp.err, sp.st) ELSE
       LET r == Match(a.patterns[i], sp.st) IN
       IF r.hang THEN r ELSE
       IF r.err # NoErr THEN Failed(r.err, r.st) ELSE
       IF r.matched
       THEN LET endPos == Position(r.st) IN
            IF IsStreamError(endPos.err) THEN Failed(endPos.err, endPos.st) ELSE
            LET match == NewMatch(a, beginPos, endPos.val, <<>>, <<r.match>>) IN
            IF a.isOrthogonal THEN Matched(match, endPos.st)
            ELSE AlternationLoop(a, i + 1, beginPos, endPos.st, Append(matches, match))
       ELSE AlternationLoop(a, i + 1, beginPos, r.st, matches)

AlternationMatch(a, st0) ==
  LET beginPos == Position(st0) IN
  IF IsStreamError(beginPos.err) THEN Failed(beginPos.err, beginPos.st)
  ELSE AlternationLoop(a, 1, beginPos.val, beginPos.st, <<>>)

\* Alternation.Match (patterns/alternation/alternation.go): after the loop
AlternationSelectV0(a, beginPos, st, matches) ==
  IF Len(matches) > 0
  THEN Matched(Longest(matches, 1, 0, NilMatch), st)
  ELSE LET endPos == Position(st) IN
       IF IsStreamError(endPos.err) THEN Failed(endPos.err, endPos.st)
       ELSE Mismatched(LogMismatch(a, endPos.st,
                         NewMismatch(a, beginPos, endPos.val, NilMatch, <<>>)))

\* Alternation.Match (patterns/alternation/alternation.go): the loop over the children
AlternationLoopV0(a, i, beginPos, st, matches) ==
  IF i > Len(a.patterns) THEN AlternationSelectV0(a, beginPos, st, matches)
  ELSE LET sp == SetPosition(st, beginPos) IN
       IF IsStreamError(sp.err) THEN Failed(sp.err, sp.st) ELSE
       LET r == Match(a.patterns[i], sp.st) IN
       IF r.hang THEN r ELSE
       IF r.err # NoErr THEN Failed(r.err, r.st) ELSE
       IF r.matched
       THEN LET endPos == Position(r.st) IN
            IF IsStreamError(endPos.err) THEN Failed(endPos.err, endPos.st)
            ELSE AlternationLoopV0(a, i + 1, beginPos, endPos.st,
                   Append(matches, NewMatch(a, beginPos, endPos.val, <<>>, <<r.match>>)))
       ELSE AlternationLoopV0(a, i + 1, beginPos, r.st, matches)

AlternationMatchV0(a, st0) ==
  LET beginPos == Position(st0) IN
  IF IsStreamError(beginPos.err) THEN Failed(beginPos.err, beginPos.st)
  ELSE AlternationLoopV0(a, 1, beginPos.val, beginPos.st, <<>>)

\* RepetitionFinish, failing also when exactly min matches were collected
RepetitionFinishOffByOne(rep, beginPos, st, matches) ==
  IF Len(matches) <= rep.min
  THEN Mismatched(Position(st).st)
  ELSE Matched(NewMatch(rep, beginPos, Position(st).val, <<>>, matches), Position(st).st)

\* Repetition.Match: after the loop
RepetitionFinish(rep, beginPos, st, matches) ==
  LET endPos == Position(st) IN
  IF IsStreamError(endPos.err) THEN Failed(endPos.err, endPos.st) ELSE
  IF Len(matches) < rep.min
  THEN Mismatched(LogMismatch(rep, endPos.st,
                    NewMismatch(rep, beginPos, endPos.val, NilMatch, matches)))
  ELSE Matched(NewMatch(rep, beginPos, endPos.val, <<>>, matches), endPos.st)

\* RepetitionLoop, leaving the cursor where the failed child attempt left it
RepetitionLoopNoReset(rep, beginPos, st, matches) ==
  IF Finished(st) THEN RepetitionFinish(rep, beginPos, st, matches) ELSE
  LET r == Match(rep.patterns[1], Position(st).st) IN
  IF r.hang THEN r ELSE
  IF r.err # NoErr THEN Failed(r.err, r.st) ELSE
  IF ~r.matched
  THEN RepetitionFinish(rep, beginPos, r.st, matches)
  ELSE IF rep.max # 0 /\ Len(matches) + 1 = rep.max
       THEN RepetitionFinish(rep, beginPos, r.st, Append(matches, r.match))
       ELSE IF rep.max = 0 /\ r.st.pos = st.pos /\ ~FaultPending(r.st)
            THEN Hangs(r.st)
            ELSE RepetitionLoop(rep, beginPos, r.st, Append(matches, r.match))

\* Repetition.Match: the loop `for { ... }`.  An iteration in which the child
\* matches without moving the cursor, with max = 0 and no Reader failure to come,
\* is repeated identically for ever: the call does not return.
RepetitionLoop(rep, beginPos, st, matches) ==
  IF Finished(st) THEN RepetitionFinish(rep, beginPos, st, matches) ELSE
  LET resetPos == Position(st) IN
  IF IsStreamError(resetPos.err) THEN Failed(resetPos.err, resetPos.st) ELSE
  LET r == Match(rep.patterns[1], resetPos.st) IN
  IF r.hang THEN r ELSE
  IF r.err # NoErr THEN Failed(r.err, r.st) ELSE
  IF ~r.matched
  THEN LET sp == SetPosition(r.st, resetPos.val) IN
       IF IsStreamError(sp.err) THEN Failed(sp.err, sp.st)
       ELSE RepetitionFinish(rep, beginPos, sp.st, matches)
  ELSE IF rep.max # 0 /\ Len(matches) + 1 = rep.max
       THEN RepetitionFinish(rep, beginPos, r.st, Append(matches, r.match))
       ELSE IF rep.max = 0 /\ r.st.pos = st.pos /\ ~FaultPending(r.st)
            THEN Hangs(r.st)
            ELSE RepetitionLoop(rep, beginPos, r.st, Append(matches, r.match))

\* RepetitionMatch, looping as if no maximum were set
RepetitionMatchUnbounded(rep, st0) ==
  RepetitionLoop([rep EXCEPT !.max = 0], Position(st0).val, Position(st0).st, <<>>)

RepetitionMatch(rep, st0) ==
  LET beginPos == Position(st0) IN
  IF IsStreamError(beginPos.err) THEN Failed(beginPos.err, beginPos.st)
  ELSE RepetitionLoop(rep, beginPos.val, beginPos.st, <<>>)

\* ExceptionMatch, attempting `must` where the failed `exception` attempt stopped
ExceptionMatchNoReset(e, st0) ==
  LET r == Match(e.patterns[2], Position(st0).st) IN
  IF r.hang THEN r ELSE
  IF r.err # NoErr THEN Failed(r.err, r.st) ELSE
  IF r.matched THEN Mismatched(Position(r.st).st)
  ELSE Match(e.patterns[1], r.st)

\* Exception.Match; patterns[1] is `must`, patterns[2] is `exception`
ExceptionMatch(e, st0) ==
  LET beginPos == Position(st0) IN
  IF IsStreamError(beginPos.err) THEN Failed(beginPos.err, beginPos.st) ELSE
  LET r == Match(e.patterns[2], beginPos.st) IN
  IF r.hang THEN r ELSE
  IF r.err # NoErr THEN Failed(r.err, r.st) ELSE
  IF r.matched
  THEN LET endPos == Position(r.st) IN
       IF IsStreamError(endPos.err) THEN Failed(endPos.err, endPos.st)
       ELSE Mismatched(LogMismatch(e, endPos.st,
                         NewMismatch(e, beginPos.val, endPos.val, r.match, <<>>)))
  ELSE LET sp == SetPosition(r.st, beginPos.val) IN
       IF IsStreamError(sp.err) THEN Failed(sp.err, sp.st)
       ELSE Match(e.patterns[1], sp.st)

\* Pattern.Match: dynamic dispatch on the pattern variant
Match(p, st) ==
  CASE p.kind = "entity" -> EntityMatch(p, st)
    [] p.kind = "vector" -> VectorMatch(p, st)
    [] p.kind = "end" -> EndMatch(p, st)
    [] p.kind = "concatenation" -> ConcatenationMatch(p, st)
    [] p.kind = "alternation" ->
         IF altImpl = "end.go" THEN AlternationMatch(p, st) ELSE AlternationMatchV0(p, st)
    [] p.kind = "repetition" -> RepetitionMatch(p, st)
    [] p.kind = "exception" -> ExceptionMatch(p, st)

\* ------------------------------------------------------------------ Unpack
\* Alternation.CanUnpack
AlternationCanUnpack(a) == TRUE

\* CanUnpack of the other variants: Unpack descends through every anonymous
\* wrapper node until a node with an identifier or a leaf
BaseCanUnpack(p) == TRUE

\* Pattern.CanUnpack: dynamic dispatch
CanUnpack(p) ==
  IF p.kind = "alternation" THEN AlternationCanUnpack(p) ELSE BaseCanUnpack(p)

\* Unpack, descending through nodes that have an identifier as well
RECURSIVE UnpackIgnoringID(_)
UnpackIgnoringID(m) ==
  IF m.nil THEN m
  ELSE IF CanUnpack(m.Pattern) /\ Len(m.Components) > 0
       THEN UnpackIgnoringID(m.Components[1])
       ELSE m

\* Match.Unpack: the loop `for ... { u = u.Components[0] }` from u = m on; a nil
\* component ends it (the dereference of u.Pattern panics) and is handed back
RECURSIVE Unpack(_)
Unpack(m) ==
  IF m.nil THEN m
  ELSE IF CanUnpack(m.Pattern) /\ Len(m.Components) > 0 /\ m.Pattern.id = NoID
       THEN Unpack(m.Components[1])
       ELSE m

\* ------------------------------------------------------------------ Print
\* PatternPrint(p) is what p.Print writes to the io.Writer: one element per Write call
\* (the Writer is taken not to fail)
RECURSIVE PatternPrint(_)
RECURSIVE PrintGroup(_, _, _)

\* BasePattern.Print, which Entity, Vector and End inherit
BasePrint(p) == <<p.printOutput>>

\* PrintChild: the bare id of a child that has one, else the child's own Print
PrintChild(child) == IF child.id # "" THEN <<child.id>> ELSE PatternPrint(child)

\* Pattern.PrintAsChild
PrintAsChild(child) == PrintChild(child)

\* the loop of Concatenation.Print and Alternation.Print over the children from
\* child i on, with the separator before every child but the first
PrintGroup(ps, i, sep) ==
  IF i > Len(ps) THEN <<>>
  ELSE (IF i > 1 THEN <<sep>> ELSE <<>>) \o PrintAsChild(ps[i]) \o PrintGroup(ps, i + 1, sep)

ConcatenationPrint(c) == <<"(">> \o PrintGroup(c.patterns, 1, ", ") \o <<")">>

AlternationPrint(a) == <<"(">> \o PrintGroup(a.patterns, 1, " | ") \o <<")">>

\* Repetition.printAny, printOptional, printAtLeastOne
printAny(rep) == PatternPrint(rep.patterns[1]) \o <<"*">>
printOptional(rep) == PatternPrint(rep.patterns[1]) \o <<"?">>
printAtLeastOne(rep) == PatternPrint(rep.patterns[1]) \o <<"+">>

\* Repetition.Print
RepetitionPrint(rep) ==
  IF rep.min = 0 /\ rep.max = 0 THEN printAny(rep)
  ELSE IF rep.min = 0 /\ rep.max = 1 THEN printOptional(rep)
  ELSE IF rep.min = 1 /\ rep.max = 0 THEN printAtLeastOne(rep)
  ELSE LET oneValue == rep.min = rep.max IN
       (IF ~oneValue THEN <<"(">> ELSE <<>>)
       \o <<ToString(rep.min) \o " * ">>
       \o PatternPrint(rep.patterns[1])
       \o (IF ~oneValue
           THEN <<", " \o ToString(rep.max - rep.min) \o " * ">>
                \o PatternPrint(rep.patterns[1]) \o <<"?)">>
           ELSE <<>>)

\* Exception.Print
ExceptionPrint(e) == PatternPrint(e.patterns[1]) \o <<" - ">> \o PatternPrint(e.patterns[2])

PatternPrint(p) ==
  CASE p.kind \in {"entity", "vector", "end"} -> BasePrint(p)
    [] p.kind = "concatenation" -> ConcatenationPrint(p)
    [] p.kind = "alternation" -> AlternationPrint(p)
    [] p.kind = "repetition" -> RepetitionPrint(p)
    [] p.kind = "exception" -> ExceptionPrint(p)

\* ------------------------------------------------------------------ Generate
\* Generate(p) is the set of token sequences p.Generate can hand to the Writer, one
\* for every outcome of its rand.Intn draws and generator functions; a call that
\* panics (rand.Intn of a non-positive number) writes no sequence.  The Writer
\* appends what it is given.
RECURSIVE Generate(_)
RECURSIVE ConcatenationGenerate(_, _)
RECURSIVE RepetitionTimes(_, _)

EntityGenerate(e) == IF e.genFunc = {} THEN {<<>>} ELSE {<<t>> : t \in e.genFunc}

VectorGenerate(v) == {v.vector}

EndGenerate(e) == {<<>>}

\* Concatenation.Generate: the children from child i on, in order
ConcatenationGenerate(c, i) ==
  IF i > Len(c.patterns) THEN {<<>>}
  ELSE {x \o y : x \in Generate(c.patterns[i]), y \in ConcatenationGenerate(c, i + 1)}

\* Alternation.Generate: one child, picked by rand.Intn(len(a.patterns))
AlternationGenerate(a) == UNION {Generate(a.patterns[i]) : i \in 1..Len(a.patterns)}

\* the loop of Repetition.Generate: the child n times
RepetitionTimes(rep, n) ==
  IF n = 0 THEN {<<>>}
  ELSE {x \o y : x \in Generate(rep.patterns[1]), y \in RepetitionTimes(rep, n - 1)}

\* Repetition.Generate: n = rand.Intn(repMax - repMin + 1) + repMin
RepetitionGenerate(rep) ==
  LET repMin == rep.min
      repMax == IF rep.max = 0 THEN repMin + rep.maxGen ELSE rep.max
  IN UNION {RepetitionTimes(rep, n) : n \in repMin..repMax}

\* Exception.Generate generates `must`
ExceptionGenerate(e) == Generate(e.patterns[1])

Generate(p) ==
  CASE p.kind = "entity" -> EntityGenerate(p)
    [] p.kind = "vector" -> VectorGenerate(p)
    [] p.kind = "end" -> EndGenerate(p)
    [] p.kind = "concatenation" -> ConcatenationGenerate(p, 1)
    [] p.kind = "alternation" -> AlternationGenerate(p)
    [] p.kind = "repetition" -> RepetitionGenerate(p)
    [] p.kind = "exception" -> ExceptionGenerate(p)

\* ------------------------------------------------------------------ grammars
\* predicates handed to entity.New
IsA == {"a"}
IsB == {"b"}
NotA == {"b", LF, NUL}

Optional(p) == Repetition(p, 0, 1)
AnyOf(p) == Repetition(p, 0, 0)
OneOrMore(p) == Repetition(p, 1, 0)

Ea == Entity(IsA)
Eb == Entity(IsB)
En == Entity(NotA)
Vaa == Vector(<<"a", "a">>)
Vab == Vector(<<"a", "b">>)

\* the grammars the streams are matched and scanned with
Leaves == {Ea, Eb, En, Vaa, Vab, Vector(<<>>), End}

Alternations ==
  { Alternation(<<Ea, Eb>>), Alternation(<<Vaa, Ea>>), Alternation(<<Ea, Vaa>>),
    Alternation(<<Ea, Vector(<<"a">>)>>), Alternation(<<Vab, Vaa>>),
    Alternation(<<Vaa, Vab, Ea>>), Alternation(<<Optional(Ea), Optional(Eb)>>),
    Alternation(<<AnyOf(Ea), Vab>>), Alternation(<<End, Ea>>), Alternation(<<>>),
    Alternation(<<Concatenation(<<Ea, Eb>>), AnyOf(Ea)>>),
    Alternation(<<Ea, Concatenation(<<Ea, En>>)>>),
    SetOrthogonal(Alternation(<<Ea, Eb>>), TRUE),
    SetOrthogonal(Alternation(<<Ea, Vaa>>), TRUE) }

Repetitions ==
  { AnyOf(Ea), OneOrMore(Ea), Optional(Vab), Repetition(Ea, 2, 3), Repetition(Vab, 2, 0),
    Repetition(Eb, 1, 1), Repetition(Ea, 1, 2), Repetition(Alternation(<<Ea, Eb>>), 2, 3),
    Repetition(Alternation(<<Vaa, Ea>>), 1, 2), AnyOf(Optional(Ea)),
    Repetition(Vector(<<>>), 1, 2), Repetition(Ea, 3, 2) }

Exceptions ==
  { Exception(Ea, Eb), Exception(En, Eb), Exception(AnyOf(Ea), Vaa), Exception(Vaa, Vab),
    Exception(Alternation(<<Vaa, Ea>>), Vab), Exception(End, En), Exception(Ea, Ea),
    Exception(Eb, AnyOf(Ea)), Exception(AnyOf(Optional(Ea)), Eb) }

Concatenations ==
  { Concatenation(<<Ea, Eb>>), Concatenation(<<AnyOf(Ea), End>>),
    Concatenation(<<Alternation(<<Vaa, Ea>>), Ea>>), Concatenation(<<>>),
    Concatenation(<<Ea, Exception(En, Eb)>>),
    Concatenation(<<Optional(Ea), Alternation(<<Eb, Vab>>), End>>) }

\* grammars some of whose patterns have the StackLog attached
Logged ==
  { SetLogger(Ea), SetLogger(Vab), SetLogger(End),
    Concatenation(<<SetLogger(Ea), Eb>>), SetLogger(Concatenation(<<Ea, Eb>>)),
    SetLogger(Alternation(<<Vab, SetLogger(Vaa)>>)), Alternation(<<SetLogger(Ea), Eb>>),
    SetLogger(Repetition(Ea, 2, 3)), Repetition(SetLogger(Alternation(<<Ea, Eb>>)), 1, 0),
    SetLogger(Exception(Ea, Vab)), Exception(SetLogger(Ea), SetLogger(Eb)),
    SetLogger(Concatenation(<<Optional(Ea), Vab, End>>)),
    Exception(SetLogger(Vaa), SetLogger(Vab)) }

\* grammars some of whose patterns have an identifier
Identified ==
  { Alternation(<<SetID(Ea, "a"), Eb>>), SetID(Alternation(<<Ea, Eb>>), "ab"),
    Alternation(<<Alternation(<<SetID(Vaa, "aa"), Ea>>), Eb>>),
    Alternation(<<SetID(Concatenation(<<Ea, Eb>>), "ab"), Concatenation(<<Ea, Ea>>)>>),
    Repetition(Alternation(<<SetID(Ea, "a"), Eb>>), 1, 2),
    Alternation(<<Alternation(<<SetID(Alternation(<<Ea>>), "a"), Eb>>)>>) }

Grammars ==
  Leaves \cup Alternations \cup Repetitions \cup Exceptions \cup Concatenations
    \cup Logged \cup Identified

\* all streams of at most n runes
RECURSIVE Streams(_)
Streams(n) ==
  IF n = 0 THEN {<<>>}
  ELSE LET shorter == Streams(n - 1)
       IN shorter \cup {Append(s, c) : s \in {t \in shorter : Len(t) = n - 1}, c \in Runes}

\* ------------------------------------------------------------------ callers
\* what a Match call handed back to its caller
Outcome(r) ==
  [called |-> TRUE, matched |-> r.matched, match |-> r.match, err |-> r.err,
   hang |-> r.hang, pos |-> r.st.pos]

\* no Match call made yet
NoOutcome == [Outcome(Mismatched([pos |-> ZeroPos])) EXCEPT !.called = FALSE]

Init ==
  /\ data \in Streams(MaxLen)
  /\ rd = [pos |-> ZeroPos, ops |-> 0, log |-> <<>>, failed |-> NoErr, after |-> 0]
  /\ failAt \in 0..MaxFail
  /\ altImpl \in {"end.go", "alternation.go"}
  /\ root \in Grammars
  /\ pc = "start"
  /\ callPos = ZeroPos
  /\ res = NoOutcome
  /\ results = <<>>
  /\ scanErr = NoErr
  /\ input = data
  /\ out = <<>>
  /\ built = NoObject

\* the caller moves the cursor before matching: Reader.Skip(n)
SkipAhead ==
  /\ pc = "start"
  /\ \E n \in 1..MaxLen :
       /\ rd.pos.Index + n <= Len(data)
       /\ Skip(rd, n).err = NoErr
       /\ rd' = Skip(rd, n).st
  /\ UNCHANGED <<data, failAt, altImpl, root, pc, callPos, res, results, scanErr, input, out, built>>

\* the caller calls root.Match(reader) once
MatchRoot ==
  /\ pc = "start"
  /\ LET r == Match(root, rd) IN
       /\ callPos' = rd.pos
       /\ res' = Outcome(r)
       /\ rd' = r.st
       /\ pc' = IF r.hang THEN "hung" ELSE "returned"
  /\ UNCHANGED <<data, failAt, altImpl, root, results, scanErr, input, out, built>>

\* ScanSkip, without the reset to the recorded position
ScanSkipNoReset(st, pos) == Skip(st, 1)

\* Scan, on a mismatch: reset to the recorded position and skip one token
ScanSkip(st, pos) ==
  LET sp == SetPosition(st, pos) IN
  IF IsStreamError(sp.err) THEN sp ELSE Skip(sp.st, 1)

\* Scan: one iteration of `for !stream.Finished()`.  An iteration that matches
\* without moving the cursor, with no Reader failure to come, is repeated for ever,
\* appending the same Match each time: pc = "spin" stands for that endless loop,
\* in which Scan neither returns nor reaches any other state.
ScanIterate ==
  /\ pc \in {"start", "scan"}
  /\ ~Finished(rd)
  /\ LET pos == Position(rd)
         r == Match(root, pos.st)
         sk == ScanSkip(r.st, pos.val)
     IN /\ callPos' = IF IsStreamError(pos.err) THEN callPos ELSE pos.val
        /\ IF IsStreamError(pos.err)
           THEN /\ rd' = pos.st /\ res' = res /\ results' = <<>>
                /\ scanErr' = pos.err /\ pc' = "done"
           ELSE IF r.hang
           THEN /\ rd' = r.st /\ res' = Outcome(r) /\ results' = results
                /\ scanErr' = scanErr /\ pc' = "hung"
           ELSE IF r.err # NoErr
           THEN /\ rd' = r.st /\ res' = Outcome(r) /\ results' = <<>>
                /\ scanErr' = r.err /\ pc' = "done"
           ELSE IF r.matched
           THEN /\ rd' = r.st /\ res' = Outcome(r) /\ results' = Append(results, r.match)
                /\ scanErr' = scanErr
                /\ pc' = IF r.st.pos = rd.pos /\ ~FaultPending(r.st) THEN "spin" ELSE "scan"
           ELSE IF IsStreamError(sk.err)
           THEN /\ rd' = sk.st /\ res' = Outcome(r) /\ results' = <<>>
                /\ scanErr' = sk.err /\ pc' = "done"
           ELSE /\ rd' = sk.st /\ res' = Outcome(r) /\ results' = results
                /\ scanErr' = scanErr /\ pc' = "scan"
  /\ UNCHANGED <<data, failAt, altImpl, root, input, out, built>>

\* Scan: the loop condition fails and the results are returned
ScanReturn ==
  /\ pc \in {"start", "scan"}
  /\ Finished(rd)
  /\ pc' = "done"
  /\ UNCHANGED <<data, rd, failAt, altImpl, root, callPos, res, results, scanErr, input, out, built>>

Next == SkipAhead \/ MatchRoot \/ ScanIterate \/ ScanReturn

Spec == Init /\ [][Next]_vars

\* a step of the Scan loop, told by what every iteration does first and last: it
\* records the position it starts at (unless Position fails) and leaves the caller
\* in the loop, hung or done
ScanLoopStep ==
  /\ pc \in {"start", "scan"}
  /\ ~Finished(rd)
  /\ callPos' \in {callPos, rd.pos}
  /\ pc' \in {"scan", "spin", "hung", "done"}

\* Scan is a sequential loop on one goroutine: while its loop condition holds the
\* next iteration is executed, and when it fails Scan returns
FairSpec == Spec /\ WF_<<pc, callPos>>(ScanLoopStep) /\ WF_vars(ScanReturn)

\* ------------------------------------------------------------------ generating
\* entities with a generator whose outputs satisfy the predicate
Ga == SetGenerateFunc(Ea, {"a"})
Gb == SetGenerateFunc(Eb, {"b"})
Gab == SetGenerateFunc(Entity({"a", "b"}), {"a", "b"})

GenLeaves == {Ga, Gb, Gab, Vaa, Vab, Vector(<<"b">>), Vector(<<>>)}

GenComposites ==
  { Concatenation(<<Ga, Gb>>), Concatenation(<<Vab, Gab>>), Concatenation(<<>>),
    Alternation(<<Ga, Gb>>), Alternation(<<Vaa, Ga>>), Alternation(<<Vab, Vaa>>),
    Repetition(Gab, 1, 2), Optional(Ga), SetMaxGen(AnyOf(Gb), 2),
    SetMaxGen(OneOrMore(Gab), 1), Repetition(Alternation(<<Ga, Gb>>), 2, 3),
    Exception(Gab, Gb), Exception(Vaa, Vab), Exception(Ga, Vab),
    Concatenation(<<SetMaxGen(AnyOf(Ga), 1), Ga>>),
    Concatenation(<<Alternation(<<Ga, Vaa>>), Ga>>),
    Concatenation(<<Optional(Ga), Gb>>) }

GenGrammars == GenLeaves \cup GenComposites

\* an empty stream, and a pattern about to generate into it
GenInit ==
  /\ data = <<>>
  /\ rd = [pos |-> ZeroPos, ops |-> 0, log |-> <<>>, failed |-> NoErr, after |-> 0]
  /\ failAt = 0
  /\ altImpl \in {"end.go", "alternation.go"}
  /\ root \in GenGrammars
  /\ pc = "generate"
  /\ callPos = ZeroPos
  /\ res = NoOutcome
  /\ results = <<>>
  /\ scanErr = NoErr
  /\ input = data
  /\ out = <<>>
  /\ built = NoObject

\* root.Generate(w): the Writer receives one of the sequences Generate can write,
\* which becomes the content of the stream
GenerateRoot ==
  /\ pc = "generate"
  /\ \E w \in Generate(root) : data' = w
  /\ pc' = "start"
  /\ UNCHANGED <<rd, failAt, altImpl, root, callPos, res, results, scanErr, input, out, built>>

GenNext == GenerateRoot \/ MatchRoot

GenerateSpec == GenInit /\ [][GenNext]_vars

\* ------------------------------------------------------------------ TestExbana
\* the grammar and the stream of TestExbana
isA == SetID(Ea, "is_a")
isB == SetID(Eb, "is_b")
altAB == SetID(Alternation(<<isA, isB>>), "is_a_or_b")
repAB == SetLogger(SetID(Repetition(altAB, 3, 4), "ab_repeat"))
abaaa == <<"a", "b", "a", "a", "a">>

TestInit ==
  /\ data = abaaa
  /\ rd = [pos |-> ZeroPos, ops |-> 0, log |-> <<>>, failed |-> NoErr, after |-> 0]
  /\ failAt \in 0..MaxFail
  /\ altImpl \in {"end.go", "alternation.go"}
  /\ root = repAB
  /\ pc = "start"
  /\ callPos = ZeroPos
  /\ res = NoOutcome
  /\ results = <<>>
  /\ scanErr = NoErr
  /\ input = data
  /\ out = <<>>
  /\ built = NoObject

TestSpec == TestInit /\ [][Next]_vars

\* ------------------------------------------------------------------ printing
\* the children the printed grammars are built from: leaves and groups, some with
\* an identifier
PrintLeaves ==
  { SetPrintOutput(Ea, "'a'"), SetID(SetPrintOutput(Eb, "'b'"), "b"),
    SetPrintOutput(Vab, "'ab'") }

PrintKids ==
  PrintLeaves \cup
  { SetID(Alternation(<<SetPrintOutput(Ea, "'a'"), SetPrintOutput(Eb, "'b'")>>), "ab"),
    Concatenation(<<SetPrintOutput(Ea, "'a'"), SetID(SetPrintOutput(Eb, "'b'"), "b")>>),
    SetID(Optional(SetPrintOutput(Ea, "'a'")), "opt") }

PrintGrammars ==
  {Concatenation(<<x, y>>) : x \in PrintKids, y \in PrintKids}
  \cup {Alternation(<<x, y>>) : x \in PrintKids, y \in PrintKids}
  \cup {Exception(x, y) : x \in PrintKids, y \in PrintLeaves}
  \cup {Repetition(x, mm[1], mm[2]) :
          x \in PrintKids, mm \in {<<0, 0>>, <<0, 1>>, <<1, 0>>, <<2, 2>>, <<1, 3>>}}

PrintInit ==
  /\ data = <<>>
  /\ rd = [pos |-> ZeroPos, ops |-> 0, log |-> <<>>, failed |-> NoErr, after |-> 0]
  /\ failAt = 0
  /\ altImpl \in {"end.go", "alternation.go"}
  /\ root \in PrintGrammars
  /\ pc = "print"
  /\ callPos = ZeroPos
  /\ res = NoOutcome
  /\ results = <<>>
  /\ scanErr = NoErr
  /\ input = data
  /\ out = <<>>
  /\ built = NoObject

\* root.Print(w)
PrintRoot ==
  /\ pc = "print"
  /\ out' = out \o PatternPrint(root)
  /\ pc' = "printed"
  /\ UNCHANGED <<data, rd, failAt, altImpl, root, callPos, res, results, scanErr, input, built>>

PrintNext == PrintRoot

PrintSpec == PrintInit /\ [][PrintNext]_vars

\* ------------------------------------------------------------------ constructors
\* a pattern object as its constructor leaves it: the embedded *BasePattern (nil,
\* or its fields), whether a call on it panicked, and what the last setter
\* returned ("this": the pattern itself, "nil": a nil Pattern, "none": no setter
\* called yet)
NilBase == [nil |-> TRUE]

NewBasePattern ==
  [nil |-> FALSE, id |-> "", self |-> "nil", logger |-> "VoidLog", printOutput |-> "",
   evalFunc |-> "nil"]

\* the struct literal of a New function
Literal(kind, base) == [kind |-> kind, base |-> base, panicked |-> FALSE, ret |-> "none"]

\* BasePattern.SetSelf through the embedded pointer: a nil pointer panics
BaseSetSelf(o) ==
  IF o.base.nil THEN [o EXCEPT !.panicked = TRUE] ELSE [o EXCEPT !.base.self = "this"]

entityNew == BaseSetSelf(Literal("entity", NewBasePattern))
vectorNew == BaseSetSelf(Literal("vector", NewBasePattern))
concatenationNew == BaseSetSelf(Literal("concatenation", NewBasePattern))
alternationNew == BaseSetSelf(Literal("alternation", NewBasePattern))
repetitionNew == BaseSetSelf(Literal("repetition", NilBase))
exceptionNew == BaseSetSelf(Literal("exception", NewBasePattern))
endNew == Literal("end", NewBasePattern)

Constructors ==
  {entityNew, vectorNew, concatenationNew, alternationNew, repetitionNew, exceptionNew, endNew}

\* the setters of BasePattern: each stores its argument and returns p.self
BaseSetID(o, id) == [o EXCEPT !.base.id = id, !.ret = o.base.self]
BaseSetLogger(o, logger) == [o EXCEPT !.base.logger = logger, !.ret = o.base.self]
BaseSetEvalFunc(o, f) == [o EXCEPT !.base.evalFunc = f, !.ret = o.base.self]
BaseSetPrintOutput(o, output) == [o EXCEPT !.base.printOutput = output, !.ret = o.base.self]

\* BasePattern.Print calls p.self.PrintOutput(): a nil self panics
BasePrintCall(o) == IF o.base.self = "nil" THEN [o EXCEPT !.panicked = TRUE] ELSE o

\* the kinds that inherit BasePattern.Print
InheritsPrint == {"entity", "vector", "end"}

NewInit ==
  /\ data = <<>>
  /\ rd = [pos |-> ZeroPos, ops |-> 0, log |-> <<>>, failed |-> NoErr, after |-> 0]
  /\ failAt = 0
  /\ altImpl \in {"end.go", "alternation.go"}
  /\ root = End
  /\ pc = "new"
  /\ callPos = ZeroPos
  /\ res = NoOutcome
  /\ results = <<>>
  /\ scanErr = NoErr
  /\ input = data
  /\ out = <<>>
  /\ built = NoObject

\* a call of one of the New functions
CallNew ==
  /\ pc = "new"
  /\ \E o \in Constructors :
       /\ built' = o
       /\ pc' = IF o.panicked THEN "panicked" ELSE "built"
  /\ UNCHANGED <<data, rd, failAt, altImpl, root, callPos, res, results, scanErr, input, out>>

CallSetID ==
  /\ pc = "built"
  /\ \E id \in {"", "x"} : built' = BaseSetID(built, id)
  /\ UNCHANGED <<data, rd, failAt, altImpl, root, pc, callPos, res, results, scanErr, input, out>>

CallSetLogger ==
  /\ pc = "built"
  /\ \E logger \in {"VoidLog", "StackLog"} : built' = BaseSetLogger(built, logger)
  /\ UNCHANGED <<data, rd, failAt, altImpl, root, pc, callPos, res, results, scanErr, input, out>>

CallSetEvalFunc ==
  /\ pc = "built"
  /\ \E f \in {"nil", "f"} : built' = BaseSetEvalFunc(built, f)
  /\ UNCHANGED <<data, rd, failAt, altImpl, root, pc, callPos, res, results, scanErr, input, out>>

CallSetPrintOutput ==
  /\ pc = "built"
  /\ \E output \in {"", "'x'"} : built' = BaseSetPrintOutput(built, output)
  /\ UNCHANGED <<data, rd, failAt, altImpl, root, pc, callPos, res, results, scanErr, input, out>>

\* Print on a pattern that inherits BasePattern.Print, once
CallPrint ==
  /\ pc = "built"
  /\ built.kind \in InheritsPrint
  /\ out = <<>>
  /\ built' = BasePrintCall(built)
  /\ IF built'.panicked
     THEN pc' = "panicked" /\ out' = out
     ELSE pc' = pc /\ out' = <<built.base.printOutput>>
  /\ UNCHANGED <<data, rd, failAt, altImpl, root, callPos, res, results, scanErr, input>>

NewNext ==
  \/ CallNew
  \/ CallSetID
  \/ CallSetLogger
  \/ CallSetEvalFunc
  \/ CallSetPrintOutput
  \/ CallPrint

NewSpec == NewInit /\ [][NewNext]_vars

\* ------------------------------------------------------------------ runes.New
\* the rune '\r', and the runes an input handed to runes.New is made of
CR == "CR"
InputRunes == {"a", CR, LF}

\* the longest input handed to runes.New
MaxInput == 4

\* all inputs of at most n runes
RECURSIVE Inputs(_)
Inputs(n) ==
  IF n = 0 THEN {<<>>}
  ELSE LET shorter == Inputs(n - 1)
       IN shorter \cup {Append(s, c) : s \in {t \in shorter : Len(t) = n - 1}, c \in InputRunes}

\* runes.New: the loop over in.ReadRune() from rune i on, with the data collected
\* so far and the crFound flag
RECURSIVE NewLoop(_, _, _, _)
NewLoop(in, i, collected, crFound) ==
  IF i > Len(in)
  THEN IF crFound THEN Append(collected, LF) ELSE collected
  ELSE LET c == in[i] IN
       IF crFound
       THEN IF c = LF
            THEN NewLoop(in, i + 1, Append(collected, c), FALSE)
            ELSE NewLoop(in, i + 1, collected \o <<LF, c>>, FALSE)
       ELSE IF c = CR
            THEN NewLoop(in, i + 1, collected, TRUE)
            ELSE NewLoop(in, i + 1, Append(collected, c), FALSE)

\* the data of the Reader runes.New returns
runesNew(in) == NewLoop(in, 1, <<>>, FALSE)

ReaderInit ==
  /\ input \in Inputs(MaxInput)
  /\ data = <<>>
  /\ rd = [pos |-> ZeroPos, ops |-> 0, log |-> <<>>, failed |-> NoErr, after |-> 0]
  /\ failAt = 0
  /\ altImpl = "end.go"
  /\ root = End
  /\ pc = "open"
  /\ callPos = ZeroPos
  /\ res = NoOutcome
  /\ results = <<>>
  /\ scanErr = NoErr
  /\ out = <<>>
  /\ built = NoObject

\* runes.New(input)
OpenReader ==
  /\ pc = "open"
  /\ data' = runesNew(input)
  /\ pc' = "opened"
  /\ UNCHANGED <<rd, failAt, altImpl, root, callPos, res, results, scanErr, input, out, built>>

ReaderNext == OpenReader

ReaderSpec == ReaderInit /\ [][ReaderNext]_vars

\* ------------------------------------------------------------------ properties
\* the runes reader, positioned at pos, with no failure to come
PlainReader(pos) == [pos |-> pos, ops |-> failAt + 1, log |-> <<>>, failed |-> NoErr, after |-> 0]

\* what pattern p does when attempted at pos
Attempt(p, pos) == Match(p, PlainReader(pos))

\* the recorded root call came back without a stream error
Returned == res.called /\ ~res.hang /\ res.err = NoErr

\* the i-th child of the root, attempted where the root call started
ChildAttempt(i) == Attempt(root.patterns[i], callPos)
Children == 1..Len(root.patterns)
Matching == {i \in Children : ChildAttempt(i).matched}
ChildLength(i) == Length(ChildAttempt(i).match.Begin, ChildAttempt(i).match.End)

\* child i is the lowest-indexed child among those with the longest match
Winner(i) ==
  /\ i \in Matching
  /\ \A j \in Matching : /\ ChildLength(j) <= ChildLength(i)
                         /\ j < i => ChildLength(j) < ChildLength(i)

NonOrthogonalCall == Returned /\ root.kind = "alternation" /\ ~root.isOrthogonal

\* C1: whenever at least one child matches at the start position, a non-orthogonal
\* Alternation.Match returns a Match wrapping the child with the longest match,
\* the lowest-indexed one among equally long ones.
C1_LongestLowestIndex ==
  (NonOrthogonalCall /\ Matching # {}) =>
     /\ res.matched
     /\ ~res.match.nil
     /\ \E i \in Children : Winner(i) /\ res.match.Components = <<ChildAttempt(i).match>>

\* C1 for the Alternation.Match of patterns/end/end.go alone
C1_EndGo == altImpl = "end.go" => C1_LongestLowestIndex

\* C2: after a successful non-orthogonal Alternation.Match the reader is at the
\* End of the returned Match.
C2_ReaderAtWinnerEnd ==
  (NonOrthogonalCall /\ res.matched /\ ~res.match.nil) => res.pos = res.match.End

\* C2 for the Alternation.Match of patterns/end/end.go alone
C2_EndGo == altImpl = "end.go" => C2_ReaderAtWinnerEnd

\* an ordinary mismatch: (false, nil, nil)
OrdinaryMismatch(r) == ~r.matched /\ r.match.nil /\ r.err = NoErr /\ ~r.hang

\* the root is an Alternation none of whose children matches at the start
\* position, and the reader has returned no stream error
NoChildMatches ==
  /\ res.called /\ root.kind = "alternation" /\ rd.failed = NoErr
  /\ \A i \in Children : OrdinaryMismatch(ChildAttempt(i))

\* where the last attempted child left the reader
LastChildPos ==
  IF Children = {} THEN callPos ELSE ChildAttempt(Len(root.patterns)).st.pos

\* C3 as stated: when no child matches, Alternation.Match returns an ordinary
\* mismatch and the reader is back at the position of the call.
C3_Original == NoChildMatches => OrdinaryMismatch(res) /\ res.pos = callPos

\* C3, amended: when no child matches, Alternation.Match returns an ordinary
\* mismatch and the reader is where the last attempted child left it.
C3_MismatchLeavesLastChildPos ==
  NoChildMatches => OrdinaryMismatch(res) /\ res.pos = LastChildPos

C3_Witness == NoChildMatches /\ pc = "returned" /\ res.pos # callPos

\* the greedy run of child matches a Repetition makes from pos on: how many, and
\* where the last one leaves the reader
RECURSIVE Collect(_, _, _)
Collect(r, pos, n) ==
  IF pos.Index >= Len(data) THEN [n |-> n, pos |-> pos]
  ELSE LET a == Attempt(r.patterns[1], pos) IN
       IF ~a.matched THEN [n |-> n, pos |-> pos]
       ELSE IF r.max # 0 /\ n + 1 = r.max THEN [n |-> n + 1, pos |-> a.st.pos]
       ELSE Collect(r, a.st.pos, n + 1)

RepetitionCall == Returned /\ root.kind = "repetition"

\* C4 as stated: when Repetition.Match fails for too few child matches, the reader
\* is back at the position of the call.
C4_Original == (RepetitionCall /\ ~res.matched) => res.pos = callPos

\* C4, amended: when Repetition.Match fails for too few child matches, the reader
\* is where the last successful child match left it; only the failed attempt is undone.
C4_TooFewKeepsConsumed ==
  (RepetitionCall /\ ~res.matched) =>
     /\ Collect(root, callPos, 0).n < root.min
     /\ res.pos = Collect(root, callPos, 0).pos

C4_Witness == RepetitionCall /\ ~res.matched /\ pc = "returned" /\ res.pos # callPos

\* C5: a successful Repetition.Match has between min and max components (at least
\* min when max = 0), and the call matches iff the loop collected at least min.
C5_RepetitionBounds ==
  RepetitionCall =>
     /\ res.matched <=> Collect(root, callPos, 0).n >= root.min
     /\ res.matched =>
          /\ ~res.match.nil
          /\ Len(res.match.Components) = Collect(root, callPos, 0).n
          /\ Len(res.match.Components) >= root.min
          /\ root.max # 0 => Len(res.match.Components) <= root.max

C5_Witness ==
  /\ RepetitionCall /\ pc = "returned" /\ res.matched /\ root.max > 1
  /\ Len(res.match.Components) = root.max
  /\ ~Finished(rd) /\ rd.pos # callPos

\* the root is an Exception whose call came back, with no stream error returned
ExceptionCall == res.called /\ root.kind = "exception" /\ rd.failed = NoErr /\ ~res.hang

MustAttempt == Attempt(root.patterns[1], callPos)
ExceptAttempt == Attempt(root.patterns[2], callPos)

\* C6: Exception.Match at p matches iff `exception` does not match at p and `must`
\* matches at p, and then returns exactly must's Match from p.
C6_ExceptionSemantics ==
  ExceptionCall =>
     /\ res.matched <=> (OrdinaryMismatch(ExceptAttempt) /\ MustAttempt.matched)
     /\ res.matched => res.match = MustAttempt.match /\ res.pos = MustAttempt.st.pos
     /\ (res.matched /\ ~res.match.nil) => res.match.Begin = callPos

\* the exception attempt consumed tokens before failing, and must matched
C6_Witness ==
  /\ ExceptionCall /\ res.matched /\ ~res.match.nil
  /\ ExceptAttempt.st.pos # callPos
  /\ Length(res.match.Begin, res.match.End) > 0

\* the root is one of the composite patterns
Composite == root.kind \in {"concatenation", "alternation", "repetition", "exception"}

\* C7: a stream error returned by a Reader operation inside a composite's Match or
\* inside Scan comes back unchanged, with matched = false and no Match, and no
\* Reader operation (hence no further child attempt) follows it.
C7_StreamErrorPropagates ==
  /\ (pc = "returned" /\ Composite /\ rd.failed # NoErr) =>
        /\ res.err = rd.failed /\ ~res.matched /\ res.match.nil /\ ~res.hang
        /\ rd.after = 0
  /\ (pc \in {"scan", "spin", "hung", "done"} /\ rd.failed # NoErr) =>
        /\ pc = "done" /\ scanErr = rd.failed /\ results = <<>>
        /\ rd.after = 0

\* a Reader failure struck inside a child of a composite, after other children
\* had been attempted
C7_Witness ==
  /\ pc = "returned" /\ Composite /\ rd.failed = StreamFailure
  /\ res.err = StreamFailure /\ rd.ops > 3

\* the same inside Scan, after a first match had been collected
C7_ScanWitness == pc = "done" /\ scanErr = StreamFailure /\ res.called /\ callPos.Index > 0

\* C8: with the runes reader at the end of its data, Match of any pattern returns a
\* nil error.
C8_NoErrorAtEnd ==
  (pc = "returned" /\ failAt = 0 /\ callPos.Index = Len(data)) => res.err = NoErr

\* C9: a Scan iteration whose root match succeeds appends the Match and leaves the
\* reader where the match left it; one whose root match fails appends nothing and
\* leaves the reader exactly one token after the recorded position.
C9_ScanStep ==
  [][ (pc \in {"start", "scan"} /\ pc' \in {"scan", "spin"}) =>
        LET a == Attempt(root, rd.pos) IN
        IF a.matched
        THEN results' = Append(results, a.match) /\ rd'.pos = a.st.pos
        ELSE /\ results' = results
             /\ rd'.pos = Advance(rd.pos, data[rd.pos.Index + 1]) ]_vars

\* a failed iteration whose attempt had consumed more than one token, and a later
\* successful one
C9_Witness ==
  /\ pc = "scan" /\ Len(results) = 1 /\ res.matched /\ callPos.Index = 1
  /\ Attempt(root, ZeroPos).st.pos.Index > 1

\* C10: consecutive Scan results do not overlap: the later one begins at or after
\* the End of the earlier one.
C10_ResultsDisjoint ==
  \A i \in 1..(Len(results) - 1) :
     (~results[i].nil /\ ~results[i + 1].nil) =>
        Length(results[i].End, results[i + 1].Begin) >= 0

\* C10 for the Alternation.Match of patterns/end/end.go alone
C10_EndGo == altImpl = "end.go" => C10_ResultsDisjoint

\* Scan has entered its loop and has not returned
Scanning == pc \in {"scan", "spin"}

\* C11: Scan terminates: once the Scan loop is running it eventually observes
\* Finished() (or an error) and returns.
C11_ScanTerminates == Scanning ~> (pc = "done")

\* Scan over a root that consumes a token whenever it matches does return
ScanOverEntityTerminates == (Scanning /\ root.kind = "entity") ~> (pc = "done")

\* a Match and every Match nested in its Components (nil ones left out)
RECURSIVE Nested(_)
Nested(m) ==
  IF m.nil THEN {}
  ELSE {m} \cup UNION {Nested(m.Components[i]) : i \in 1..Len(m.Components)}

\* m spans exactly what the cursor advanced over during the Match call that
\* produced it: its pattern, called at Begin, matches and returns with the reader
\* at End, End is not before Begin, and both are positions of the stream
SpansConsumed(m) ==
  /\ Length(m.Begin, m.End) >= 0
  /\ m.Begin.Index \in 0..Len(data) /\ m.Begin = PosAt(m.Begin.Index)
  /\ m.End.Index \in 0..Len(data) /\ m.End = PosAt(m.End.Index)
  /\ LET a == Attempt(m.Pattern, m.Begin)
     IN a.matched /\ a.st.pos = m.End

\* the root call returned a Match
RootMatched == Returned /\ res.matched /\ ~res.match.nil

\* C12: every Match returned with matched = true begins where the call was entered
\* and ends where the reader is on return, and it and every Match nested in it
\* span exactly the tokens the cursor advanced over, with Length(Begin, End) >= 0.
C12_MatchSpansConsumed ==
  RootMatched =>
     /\ res.match.Begin = callPos
     /\ res.match.End = res.pos
     /\ \A m \in Nested(res.match) : SpansConsumed(m)

\* C12 for the Alternation.Match of patterns/end/end.go alone
C12_EndGo == altImpl = "end.go" => C12_MatchSpansConsumed

\* the Matches the children ps[i..] return when called one after the other from pos
RECURSIVE ChildRun(_, _, _)
ChildRun(ps, i, pos) ==
  IF i > Len(ps) THEN <<>>
  ELSE LET a == Attempt(ps[i], pos) IN <<a.match>> \o ChildRun(ps, i + 1, a.st.pos)

\* the Matches n successive calls of child p return from pos on
RECURSIVE RepeatRun(_, _, _)
RepeatRun(p, n, pos) ==
  IF n = 0 THEN <<>>
  ELSE LET a == Attempt(p, pos) IN <<a.match>> \o RepeatRun(p, n - 1, a.st.pos)

\* the shape of a Match by the variant of the pattern that produced it
Shape(m) ==
  CASE m.Pattern.kind \in {"entity", "vector"} ->
         /\ m.Value = <<SubSeq(data, m.Begin.Index + 1, m.End.Index)>>
         /\ m.Components = <<>>
    [] m.Pattern.kind = "concatenation" ->
         /\ m.Value = <<>>
         /\ m.Components = ChildRun(m.Pattern.patterns, 1, m.Begin)
    [] m.Pattern.kind = "repetition" ->
         /\ m.Value = <<>>
         /\ m.Components = RepeatRun(m.Pattern.patterns[1], Len(m.Components), m.Begin)
    [] m.Pattern.kind = "alternation" ->
         /\ m.Value = <<>>
         /\ Len(m.Components) = 1
         /\ \E i \in 1..Len(m.Pattern.patterns) :
               LET a == Attempt(m.Pattern.patterns[i], m.Begin)
               IN a.matched /\ m.Components[1] = a.match /\ a.st.pos = m.End
    [] m.Pattern.kind = "end" -> m.Value = <<>> /\ m.Components = <<>>

\* C13: every Match of a successful call, and every Match nested in it, has the
\* shape of its variant: Entity and Vector set Value to the captured tokens and have
\* no Components; Concatenation and Repetition have no Value and the child matches
\* as Components; Alternation has no Value and exactly one Component, the winning
\* child's Match.
C13_MatchShape ==
  (Returned /\ res.matched) => \A m \in Nested(res.match) : Shape(m)

\* a Repetition of Alternations matched at least twice: all three shapes nested
C13_Witness ==
  /\ RootMatched /\ pc = "returned" /\ root.kind = "repetition"
  /\ Len(res.match.Components) >= 2
  /\ \A i \in 1..Len(res.match.Components) :
        /\ ~res.match.Components[i].nil
        /\ res.match.Components[i].Pattern.kind = "alternation"
        /\ Len(res.match.Components[i].Components) = 1
        /\ ~res.match.Components[i].Components[1].nil
        /\ res.match.Components[i].Components[1].Pattern.kind = "entity"

\* the root is an End whose call came back, with no stream error returned
EndCall == res.called /\ root.kind = "end" /\ rd.failed = NoErr

\* C14: End.Match matches iff the reader is finished; on success Begin and End of
\* the Match are both the current position; matched or not, the reader's position
\* is unchanged by the call.
C14_EndMatch ==
  EndCall =>
     /\ res.matched <=> callPos.Index >= Len(data)
     /\ res.matched => /\ ~res.match.nil
                        /\ res.match.Begin = callPos /\ res.match.End = callPos
     /\ ~res.matched => OrdinaryMismatch(res)
     /\ res.pos = callPos

\* End matched after the caller had moved the cursor to the end of a stream
C14_Witness == EndCall /\ pc = "returned" /\ res.matched /\ callPos.Index > 0

\* End did not match with one token left
C14_MismatchWitness ==
  EndCall /\ pc = "returned" /\ ~res.matched /\ callPos.Index + 1 = Len(data)

\* the root Alternation called at the recorded position with the orthogonal flag
\* set, and with it cleared
FlagSet == Attempt(SetOrthogonal(root, TRUE), callPos)
FlagCleared == Attempt(SetOrthogonal(root, FALSE), callPos)

\* at every position of the stream at most one child of the root matches
MutuallyExclusive ==
  \A i \in 0..Len(data) :
     Cardinality({k \in Children : Attempt(root.patterns[k], PosAt(i)).matched}) <= 1

\* the root is an Alternation of patterns/end/end.go (the one with the flag) with
\* mutually exclusive children, and has been called
OrthogonalCase ==
  res.called /\ root.kind = "alternation" /\ altImpl = "end.go" /\ MutuallyExclusive

\* both calls report the same outcome: matched flag, Begin, End and winning child
\* of the Match, and reader position
SameOutcome(x, y) ==
  /\ x.matched = y.matched
  /\ x.match.nil = y.match.nil
  /\ x.match.Begin = y.match.Begin /\ x.match.End = y.match.End
  /\ x.match.Components = y.match.Components
  /\ x.st.pos = y.st.pos

\* C15: for an Alternation with mutually exclusive children, Match with the
\* orthogonal flag set returns the same matched flag and the same Match and leaves
\* the reader at the same position as Match with the flag cleared.
C15_OrthogonalEquivalence == OrthogonalCase => SameOutcome(FlagSet, FlagCleared)

\* C15 for calls in which neither variant gets an error from the reader
C15_WithoutReaderError ==
  (OrthogonalCase /\ FlagSet.err = NoErr /\ FlagCleared.err = NoErr) =>
     SameOutcome(FlagSet, FlagCleared)

\* the generated stream was matched in full: the call matched and left the reader
\* at the end of the stream
MatchedInFull == res.matched /\ res.err = NoErr /\ res.pos.Index = Len(data)

\* C16: every token sequence Generate can write is matched in full by the same
\* pattern's Match started at the beginning of that sequence (calls that got an
\* error from the reader are left aside).
C16_GeneratedAccepted == (pc = "returned" /\ res.err = NoErr) => MatchedInFull

\* the root is a leaf: a Vector, or an Entity with its generator
LeafCall == pc = "returned" /\ root.kind \in {"entity", "vector"}

\* C17: a leaf's Generate followed by Match at the start of the generated stream
\* matches, with Value equal to the generated tokens, and consumes the whole stream.
C17_LeafRoundTrip ==
  LeafCall => MatchedInFull /\ ~res.match.nil /\ res.match.Value = <<data>>

\* C17 for leaves that generate at least one token
C17_NonEmptyLeaf == (LeafCall /\ data # <<>>) => C17_LeafRoundTrip

\* repAB.Match was called at the start of "abaaa" and came back without an error
TestCall == Returned /\ pc = "returned" /\ root = repAB /\ data = abaaa /\ callPos = ZeroPos

\* the tokens a leaf Match captured
Captured(m) == IF m.nil \/ m.Value = <<>> THEN <<>> ELSE m.Value[1]

\* C18: Repetition(Alternation(Entity a, Entity b), 3, 4) matched at the start of
\* "abaaa" matches with exactly 4 components covering "abaa" and leaves the reader
\* at index 4, one 'a' unconsumed.
C18_TestExbana ==
  TestCall =>
     /\ res.matched /\ ~res.match.nil
     /\ Len(res.match.Components) = 4
     /\ res.match.Begin.Index = 0 /\ res.match.End.Index = 4
     /\ \A i \in 1..4 :
           /\ ~res.match.Components[i].nil
           /\ res.match.Components[i].Begin.Index = i - 1
           /\ res.match.Components[i].End.Index = i
           /\ Captured(res.match.Components[i].Components[1]) = <<abaaa[i]>>
     /\ res.pos.Index = 4
     /\ SubSeq(data, res.pos.Index + 1, Len(data)) = <<"a">>

C18_Witness == TestCall /\ res.matched /\ ~Finished(rd)

\* p with no logger attached anywhere: every pattern keeps its default VoidLog
RECURSIVE Silent(_)
Silent(p) ==
  [p EXCEPT !.logging = FALSE, !.patterns = [i \in 1..Len(p.patterns) |-> Silent(p.patterns[i])]]

\* the root call, and the same call on the grammar without loggers
WithLoggers == Attempt(root, callPos)
WithoutLoggers == Attempt(Silent(root), callPos)

\* C19: mismatch logging is opt-in per pattern: a Mismatch naming pattern X is
\* recorded only if a logger was attached to X, a failing Match without loggers
\* records nothing and is still an ordinary mismatch, and the outcome of Match is
\* the same whether or not loggers are attached.
C19_LoggingOptIn ==
  Returned =>
     /\ \A i \in 1..Len(rd.log) : rd.log[i].Pattern.logging
     /\ pc = "returned" => rd.log = WithLoggers.st.log
     /\ WithoutLoggers.st.log = <<>>
     /\ WithoutLoggers.matched = res.matched /\ WithoutLoggers.err = res.err
     /\ WithoutLoggers.st.pos = res.pos
     /\ WithoutLoggers.match.nil = res.match.nil
     /\ WithoutLoggers.match.Begin = res.match.Begin /\ WithoutLoggers.match.End = res.match.End
     /\ ~res.matched => OrdinaryMismatch(res) /\ OrdinaryMismatch(WithoutLoggers)

\* the root failed silently while a child with a logger recorded its own mismatch
C19_Witness ==
  /\ Returned /\ pc = "returned" /\ ~res.matched /\ ~root.logging
  /\ Len(rd.log) = 1 /\ rd.log[1].Pattern # root

\* the nodes reached from m by following Components[0], m first
RECURSIVE FirstComponents(_)
FirstComponents(m) ==
  IF m.nil THEN <<>>
  ELSE IF Len(m.Components) > 0 THEN <<m>> \o FirstComponents(m.Components[1]) ELSE <<m>>

\* a node at which the descent stops: it has an identifier or is a leaf
Stops(m) == m.Pattern.id # NoID \/ m.Components = <<>>

ChildText(child) == IF child.id # "" THEN <<child.id>> ELSE PatternPrint(child)

\* the rendering of a composite when every direct child is rendered by that rule
ByTheRule(p) ==
  LET kid(i) == ChildText(p.patterns[i]) IN
  CASE p.kind = "concatenation" -> <<"(">> \o kid(1) \o <<", ">> \o kid(2) \o <<")">>
    [] p.kind = "alternation" -> <<"(">> \o kid(1) \o <<" | ">> \o kid(2) \o <<")">>
    [] p.kind = "exception" -> kid(1) \o <<" - ">> \o kid(2)
    [] p.kind = "repetition" ->
         IF p.min = 0 /\ p.max = 0 THEN kid(1) \o <<"*">>
         ELSE IF p.min = 0 /\ p.max = 1 THEN kid(1) \o <<"?">>
         ELSE IF p.min = 1 /\ p.max = 0 THEN kid(1) \o <<"+">>
         ELSE IF p.min = p.max THEN <<ToString(p.min) \o " * ">> \o kid(1)
         ELSE <<"(", ToString(p.min) \o " * ">> \o kid(1)
              \o <<", " \o ToString(p.max - p.min) \o " * ">> \o kid(1) \o <<"?)">>

Printed == pc = "printed"

\* C21: in the rendering of every composite (Concatenation, Alternation,
\* Repetition, Exception) a direct child with a non-empty id appears as that bare
\* id and a direct child with an empty id appears inline by its own Print
C21_ChildrenByID == Printed => out = ByTheRule(root)

\* the part of C21 that the code keeps: Concatenation and Alternation
C21_Groups ==
  (Printed /\ root.kind \in {"concatenation", "alternation"}) => out = ByTheRule(root)

C21_GroupsWitness ==
  /\ Printed
  /\ root.kind \in {"concatenation", "alternation"}
  /\ root.patterns[1].id # ""
  /\ root.patterns[2].id = ""


\* ------------------------------------------------------------------ C22
\* the children of the root Concatenation attempted one after the other from
\* child i on, each where the one before left the reader: the first child to fail,
\* where its attempt began and ended, and the Matches of the children before it
\* (k = 0 when no child fails)
RECURSIVE FirstToFail(_, _, _)
FirstToFail(i, pos, matches) ==
  IF i > Len(root.patterns) THEN [k |-> 0, begin |-> pos, end |-> pos, matches |-> matches]
  ELSE LET r == Attempt(root.patterns[i], pos) IN
       IF r.matched THEN FirstToFail(i + 1, r.st.pos, Append(matches, r.match))
       ELSE [k |-> i, begin |-> pos, end |-> r.st.pos, matches |-> matches]

ConcatenationCall ==
  root.kind = "concatenation" /\ pc = "returned" /\ res.err = NoErr

ChildFailed == ConcatenationCall /\ FirstToFail(1, callPos, <<>>).k > 0

\* C22: when the k-th child of a Concatenation is the first to fail, Match returns
\* an ordinary mismatch and leaves the reader where the failing child left it; the
\* Mismatch it logs has Begin = the Concatenation's start, End = the position after
\* the failed attempt, Unmatched = an empty Match of the failing child spanning
\* the attempt, and Matched = the Matches of children 1..k-1 in order
C22_ConcatenationMismatch ==
  ChildFailed =>
    LET f == FirstToFail(1, callPos, <<>>) IN
    /\ ~res.matched /\ res.match.nil
    /\ res.pos = f.end
    /\ root.logging =>
         /\ rd.log # <<>>
         /\ rd.log[Len(rd.log)] =
              [Pattern |-> root, Begin |-> callPos, End |-> f.end,
               Unmatched |-> NewMatch(root.patterns[f.k], f.begin, f.end, <<>>, <<>>),
               Matched |-> f.matches]

\* a logging Concatenation whose second or later child failed after consuming
C22_Witness ==
  /\ ChildFailed
  /\ root.logging
  /\ FirstToFail(1, callPos, <<>>).k > 1
  /\ FirstToFail(1, callPos, <<>>).end # FirstToFail(1, callPos, <<>>).begin
  /\ res.pos # callPos


\* ------------------------------------------------------------------ C23
EntityCall == root.kind = "entity" /\ pc = "returned" /\ res.err = NoErr

\* a token remains where the root call started, and the token
TokenRemains == callPos.Index < Len(data)
TokenAtStart == data[callPos.Index + 1]

\* C23 as claimed: Entity.Match advances the reader by exactly one token on every
\* call that returns without error, and matches iff the predicate holds for a
\* token actually read
C23_Original ==
  EntityCall =>
    /\ res.pos.Index = callPos.Index + 1
    /\ res.matched <=> (TokenRemains /\ TokenAtStart \in root.pred)

\* C23: on every call that returns without error Entity.Match advances the reader
\* by exactly one token when a token remains, whether or not the predicate holds,
\* and leaves the reader where it is when no token remains; it returns matched
\* iff the predicate holds for a token actually read (it never matches when no
\* token remains)
C23_EntityConsumesOne ==
  EntityCall =>
    /\ TokenRemains => res.pos = Advance(callPos, TokenAtStart)
    /\ ~TokenRemains => res.pos = callPos
    /\ res.matched <=> (TokenRemains /\ TokenAtStart \in root.pred)

\* a mismatch that consumed the token, a match, and a call at the end of input
C23_Witness == EntityCall /\ TokenRemains /\ ~res.matched /\ res.pos.Index = callPos.Index + 1
C23_MatchWitness == EntityCall /\ res.matched /\ callPos.Index > 0
C23_EndWitness == EntityCall /\ ~TokenRemains /\ data # <<>>


\* ------------------------------------------------------------------ C24
\* a root Exception called once on a fresh StackLog, with no Reader failure
ExceptionOnce == root.kind = "exception" /\ pc = "returned" /\ rd.failed = NoErr

\* the records in the log, without the Exception's own when it has a logger
ChildRecords ==
  IF root.logging /\ rd.log # <<>> THEN SubSeq(rd.log, 1, Len(rd.log) - 1) ELSE rd.log

\* C24: inside Exception.Match `must` is attempted only after `except` has been
\* attempted and has failed, and at that moment the reader is at the Exception's
\* start position; if `except` matches, `must` is never attempted.  Observed on
\* the mismatch records the children leave in the log, in order, and on where the
\* reader ends up.
C24_ExceptionOrdering ==
  ExceptionOnce =>
    /\ ExceptAttempt.matched =>
         /\ OrdinaryMismatch(res)
         /\ res.pos = ExceptAttempt.st.pos
         /\ ChildRecords = ExceptAttempt.st.log
    /\ OrdinaryMismatch(ExceptAttempt) =>
         /\ rd.log = ExceptAttempt.st.log \o MustAttempt.st.log
         /\ res.pos = MustAttempt.st.pos
         /\ res.matched = MustAttempt.matched

\* `except` consumed tokens and failed, then `must` failed from the start: both
\* left a record
C24_Witness ==
  /\ ExceptionOnce
  /\ OrdinaryMismatch(ExceptAttempt)
  /\ ExceptAttempt.st.pos # callPos
  /\ callPos.Index > 0
  /\ Len(rd.log) = 2
  /\ rd.log[2].Begin = callPos

\* `except` matched where `must` would have left a record
C24_NeverAttemptedWitness ==
  /\ ExceptionOnce
  /\ ExceptAttempt.matched
  /\ MustAttempt.st.log # <<>>
  /\ rd.log = <<>>


\* ------------------------------------------------------------------ C25
RepetitionMatched == RepetitionCall /\ res.matched /\ ~res.match.nil

\* the End of the last component, or the start position when there is none
LastEnd ==
  IF res.match.Components = <<>> THEN callPos
  ELSE res.match.Components[Len(res.match.Components)].End

\* C25: after Repetition.Match returns matched=true the reader's position equals
\* the End of the last component, or the Repetition's start position when there
\* are no components
C25_ReaderAtLastEnd == RepetitionMatched => res.pos = LastEnd

\* C25 with the Alternation.Match of end.go
C25_EndGo == altImpl = "end.go" => C25_ReaderAtLastEnd


\* ------------------------------------------------------------------ C26
CallReturned == res.called /\ ~res.hang

\* C26: every Match call returns exactly one of three shapes: (true, non-nil
\* Match, nil error), (false, nil, nil error) or (false, nil, non-nil error); in
\* particular an Alternation whose only matching children matched zero tokens
\* still returns a non-nil Match
C26_ResultShapes ==
  CallReturned =>
    \/ res.matched /\ ~res.match.nil /\ res.err = NoErr
    \/ ~res.matched /\ res.match.nil /\ res.err = NoErr
    \/ ~res.matched /\ res.match.nil /\ res.err # NoErr

\* C26 with the Alternation.Match of end.go
C26_EndGo == altImpl = "end.go" => C26_ResultShapes


\* ------------------------------------------------------------------ C27
\* the root call is in the loop of Repetition.Match for ever: every iteration
\* finds the same reader state and the child matching without consuming
NeverReturns == res.called /\ res.hang

\* C27: Repetition.Match terminates on every finite stream for every child
\* pattern, including when max = 0 and the child can match without consuming
\* any token at a position that is not the end of input
C27_RepetitionTerminates == root.kind = "repetition" => ~NeverReturns

\* a Repetition with a maximum, over a child that is not itself a Repetition,
\* always returns
C27_BoundedTerminates ==
  (root.kind = "repetition" /\ root.max # 0 /\ root.patterns[1].kind # "repetition")
    => ~NeverReturns


\* ------------------------------------------------------------------ C28
ConcatenationMatched ==
  /\ Returned /\ root.kind = "concatenation"
  /\ res.matched /\ ~res.match.nil
  /\ res.match.Components # <<>>

\* C28: in a successful Concatenation.Match with at least one child the first
\* component begins at the Match's Begin, every component ends where the next one
\* begins, and the last component ends at the Match's End
C28_ComponentsTile ==
  ConcatenationMatched =>
    LET cs == res.match.Components IN
    /\ \A i \in 1..Len(cs) : ~cs[i].nil
    /\ cs[1].Begin = res.match.Begin
    /\ \A i \in 1..(Len(cs) - 1) : cs[i].End = cs[i + 1].Begin
    /\ cs[Len(cs)].End = res.match.End

\* C28 with the Alternation.Match of end.go
C28_EndGo == altImpl = "end.go" => C28_ComponentsTile


\* ------------------------------------------------------------------ C29
WellBuilt ==
  /\ ~built.panicked
  /\ ~built.base.nil
  /\ built.base.self = "this"
  /\ built.base.logger # "nil"
  /\ built.ret = "none" => built.base.logger = "VoidLog"
  /\ built.ret \in {"none", "this"}

\* C29: every pattern constructor returns a fully initialised pattern: its logger
\* is the non-nil no-op logger and its self-reference is the pattern itself, so
\* that SetID, SetLogger, SetEvalFunc and SetPrintOutput each return that same
\* pattern and Match/Print can be called on it without a prior setter call
C29_FullyInitialised == built # NoObject => WellBuilt

\* C29 for the constructors other than repetition.New and end.New
C29_FiveConstructors ==
  (built # NoObject /\ built.kind \notin {"repetition", "end"}) => WellBuilt


\* ------------------------------------------------------------------ C30
\* s with each CR LF pair and each lone CR replaced by one LF
RECURSIVE Normalised(_)
Normalised(s) ==
  IF s = <<>> THEN <<>>
  ELSE IF Head(s) # CR THEN <<Head(s)>> \o Normalised(Tail(s))
  ELSE IF Len(s) > 1 /\ s[2] = LF THEN <<LF>> \o Normalised(Tail(Tail(s)))
  ELSE <<LF>> \o Normalised(Tail(s))

Opened == pc = "opened"

\* C30: runes.New normalises line endings for every input: each CR LF pair and
\* each lone CR (including consecutive CRs and a CR at end of input) becomes
\* exactly one LF, so the reader's data contains no CR rune, and all other runes
\* are kept in their original order
C30_LineEndings ==
  Opened =>
    /\ data = Normalised(input)
    /\ \A i \in 1..Len(data) : data[i] # CR

\* C30 for the inputs in which no CR follows a CR
C30_SingleCRs ==
  (Opened /\ \A i \in 1..(Len(input) - 1) : ~(input[i] = CR /\ input[i + 1] = CR))
    => C30_LineEndings

====
